---------------------------- MODULE Spec2Model ----------------------------
(***************************************************************************)
(* A model of the two source files of the repository:                      *)
(*   src/debug.py                           get_alpha_carbon_info          *)
(*   src/src/byprot/modules/cross_entropy.py  the label-smoothed losses    *)
(*                                                                         *)
(* Tensors are functions from index tuples to values.  Real numbers are    *)
(* exact rationals <<n, d>>; a zero denominator is what IEEE division by   *)
(* zero leaves: <<1, 0>> is +inf, <<-1, 0>> is -inf and <<0, 0>> is nan.   *)
(* Log-probabilities are counted in units of ln 2: a score s stands for    *)
(* the logit s * ln 2, and the score rows are those whose softmax          *)
(* normaliser is a power of two, so that log_softmax is exact.             *)
(***************************************************************************)
EXTENDS Integers, Sequences, FiniteSets, TLC

(***************************************************************************)
(* Bounds of the model.                                                    *)
(***************************************************************************)
MaxTokens == 2
MaxResidues == 3

(***************************************************************************)
(* Python's None and a present value.                                      *)
(***************************************************************************)
None == <<>>
Some(v) == <<v>>
IsNone(o) == DOMAIN o = {}
Val(o) == o[1]

(***************************************************************************)
(* Exact rational arithmetic.                                              *)
(***************************************************************************)
Abs(x) == IF x < 0 THEN -x ELSE x
Sign(x) == IF x < 0 THEN -1 ELSE IF x > 0 THEN 1 ELSE 0
Max(a, b) == IF b > a THEN b ELSE a

RECURSIVE Gcd(_, _)
Gcd(a, b) == IF b = 0 THEN a ELSE Gcd(b, a % b)

Norm(n, d) ==
    IF d = 0 THEN <<Sign(n), 0>>
    ELSE LET g == Gcd(Abs(n), Abs(d))
         IN  <<Sign(d) * (n \div g), Abs(d) \div g>>

Rat(n) == <<n, 1>>
Zero == Rat(0)
Finite(a) == a[2] # 0
IsNan(a) == a = <<0, 0>>
RAdd(a, b) == Norm(a[1] * b[2] + b[1] * a[2], a[2] * b[2])
RSub(a, b) == Norm(a[1] * b[2] - b[1] * a[2], a[2] * b[2])
RMul(a, b) == Norm(a[1] * b[1], a[2] * b[2])
\* a / b for finite a and b; b = 0 gives +-inf, or nan for 0 / 0
RDiv(a, b) == IF b[1] = 0 THEN <<Sign(a[1]), 0>> ELSE Norm(a[1] * b[2], a[2] * b[1])

(***************************************************************************)
(* Tensor helpers.  idx tuples are in row-major (lexicographic) order.     *)
(***************************************************************************)
Front(i) == SubSeq(i, 1, Len(i) - 1)

RECURSIVE LexLess(_, _)
LexLess(i, j) ==
    IF Len(i) = 0 \/ Len(j) = 0 THEN FALSE
    ELSE IF Head(i) # Head(j) THEN Head(i) < Head(j)
    ELSE LexLess(Tail(i), Tail(j))

First(S) == CHOOSE i \in S : \A j \in S : (j # i) => LexLess(i, j)

\* tensor.sum() over every element, for a tensor of rationals
RECURSIVE SumOver(_, _)
SumOver(t, S) ==
    IF S = {} THEN Zero
    ELSE LET i == First(S) IN RAdd(t[i], SumOver(t, S \ {i}))

TSum(t) == SumOver(t, DOMAIN t)

\* elementwise product of two tensors of the same shape
TMul(a, b) == [i \in DOMAIN a |-> RMul(a[i], b[i])]

RECURSIVE SumSeq(_)
SumSeq(s) == IF s = <<>> THEN 0 ELSE Head(s) + SumSeq(Tail(s))

(***************************************************************************)
(* F.log_softmax(scores, dim=-1), in units of ln 2.                        *)
(***************************************************************************)
RECURSIVE Pow2(_)
Pow2(n) == IF n = 0 THEN 1 ELSE 2 * Pow2(n - 1)

RECURSIVE IsPow2(_)
IsPow2(n) == IF n = 1 THEN TRUE ELSE IF n % 2 = 1 THEN FALSE ELSE IsPow2(n \div 2)

RECURSIVE Log2(_)
Log2(n) == IF n = 1 THEN 0 ELSE 1 + Log2(n \div 2)

SumExp(row) == SumSeq([c \in 1..Len(row) |-> Pow2(row[c])])

log_softmax_row(row) == [c \in 1..Len(row) |-> row[c] - Log2(SumExp(row))]

\* A tensor whose last dimension is the class dimension is a record: size is
\* its shape[-1] and rows maps every index of the other dimensions to its row.
log_softmax(input) ==
    [size |-> input.size,
     rows |-> [i \in DOMAIN input.rows |-> log_softmax_row(input.rows[i])]]

(***************************************************************************)
(* label_smoothed_nll_loss(lprobs, target, epsilon, ignore_index, reduce). *)
(* lprobs maps an index to its row of class log-probabilities; target maps *)
(* an index to a class.  torch.gather raises for an index outside          *)
(* 0..C-1, and epsilon / (C - 1) raises ZeroDivisionError for C = 1.       *)
(***************************************************************************)
\* the number of dimensions the indices range over; an empty tensor is the
\* [0]-shaped result of a masked selection
Dim(t) == IF DOMAIN t = {} THEN 1 ELSE Len(CHOOSE i \in DOMAIN t : TRUE)

unsqueeze(t) == [i \in {Append(j, 1) : j \in DOMAIN t} |-> t[Front(i)]]
squeeze(t) == [i \in {Front(j) : j \in DOMAIN t} |-> t[Append(i, 1)]]

GatherRaises(lprobs, target) ==
    \E i \in DOMAIN target : target[i] \notin 0..(lprobs.size - 1)

\* -lprobs.gather(dim=-1, index=target), target already unsqueezed
NegGather(lprobs, target) ==
    [i \in DOMAIN target |-> Rat(-(lprobs.rows[Front(i)][target[i] + 1]))]

\* -lprobs.sum(dim=-1, keepdim=True)
NegRowSum(lprobs) ==
    [i \in {Append(j, 1) : j \in DOMAIN lprobs.rows} |->
        Rat(-SumSeq(lprobs.rows[Front(i)]))]

\* t.masked_fill_(pad_mask, 0.0)
masked_fill(t, pad_mask) == [i \in DOMAIN t |-> IF pad_mask[i] THEN Zero ELSE t[i]]

Raised == [raised |-> TRUE, loss |-> None, nll_loss |-> None]

\* eps_i with the smoothing mass spread over all the classes
eps_i_over_size(epsilon, size) == RDiv(epsilon, Rat(size))

eps_i(epsilon, size) == RDiv(epsilon, Rat(size - 1))

label_smoothed_nll_loss(lprobs, target, epsilon, ignore_index, reduce) ==
    LET flag == Dim(target) = (Dim(lprobs.rows) + 1) - 1
        target1 == IF flag THEN unsqueeze(target) ELSE target
    IN  IF GatherRaises(lprobs, target1) \/ lprobs.size - 1 = 0 THEN Raised
        ELSE
        LET nll0 == NegGather(lprobs, target1)
            smooth0 == NegRowSum(lprobs)
            pad_mask == [i \in DOMAIN target1 |->
                            ~IsNone(ignore_index) /\ target1[i] = Val(ignore_index)]
            nll1 == IF IsNone(ignore_index) THEN nll0 ELSE masked_fill(nll0, pad_mask)
            smooth1 == IF IsNone(ignore_index) THEN smooth0
                       ELSE masked_fill(smooth0, pad_mask)
            nll2 == IF flag THEN squeeze(nll1) ELSE nll1
            smooth2 == IF flag THEN squeeze(smooth1) ELSE smooth1
            e_i == eps_i(epsilon, lprobs.size)
            w_nll == RSub(RSub(Rat(1), epsilon), e_i)
        IN  IF reduce
            THEN LET nll_loss == TSum(nll2)
                     smooth_loss == TSum(smooth2)
                 IN  [raised |-> FALSE,
                      loss |-> RAdd(RMul(w_nll, nll_loss), RMul(e_i, smooth_loss)),
                      nll_loss |-> nll_loss]
            ELSE [raised |-> FALSE,
                  loss |-> [i \in DOMAIN nll2 |->
                               RAdd(RMul(w_nll, nll2[i]), RMul(e_i, smooth2[i]))],
                  nll_loss |-> nll2]


(***************************************************************************)
(* Shapes, selection and reshaping.                                        *)
(***************************************************************************)
Idx1(n) == {<<i>> : i \in 1..n}
Idx2(B, L) == {<<b, l>> : b \in 1..B, l \in 1..L}

numel(t) == Cardinality(DOMAIN t)
\* shape[0] of a non-empty tensor
Shape0(t) == Cardinality({i[1] : i \in DOMAIN t})

Rank(i, S) == Cardinality({j \in S : LexLess(j, i)}) + 1
\* the elements of t at the indices S, in row-major order, as a [|S|] tensor
Pick(t, S) == [k \in Idx1(Cardinality(S)) |-> t[CHOOSE i \in S : Rank(i, S) = k[1]]]

\* the selection that keeps every element whatever the mask says
masked_select_keeps_all(t, m) == Pick(t, DOMAIN t)

\* t[mask] for a boolean mask of t's leading shape
masked_select(t, m) == Pick(t, {i \in DOMAIN t : m[i]})

\* t.reshape(-1), and rows.reshape(-1, num_classes)
reshape_flat(t) == Pick(t, DOMAIN t)

\* x.ne(v).sum(); every element differs from None
CountNe(t, v) == Cardinality({i \in DOMAIN t : IsNone(v) \/ t[i] # Val(v)})

RaisedForward == [raised |-> TRUE, loss |-> None, logging_output |-> None]

(***************************************************************************)
(* CrossEntropyLoss.forward(scores, target, mask), lines 38-85.  self      *)
(* holds the module's ignore_index and label_smoothing.  ppl, an           *)
(* exponential, has no rational value and is left out of logging_output.   *)
(***************************************************************************)
CrossEntropyLoss_forward(self, scores, target, mask) ==
    LET n_tokens == numel(target)
        n_nonpad_tokens == CountNe(target, self.ignore_index)
        bsz == Shape0(scores.rows)
        num_classes == scores.size
        scores1 == IF ~IsNone(mask) THEN masked_select(scores.rows, Val(mask))
                   ELSE scores.rows
        target1 == IF ~IsNone(mask) THEN masked_select(target, Val(mask)) ELSE target
        scores2 == [size |-> num_classes, rows |-> reshape_flat(scores1)]
        target2 == reshape_flat(target1)
        sample_size == IF ~IsNone(self.ignore_index)
                       THEN CountNe(target2, self.ignore_index)
                       ELSE numel(target2)
        r == label_smoothed_nll_loss(log_softmax(scores2), target2,
                                     self.label_smoothing, self.ignore_index, TRUE)
    IN  IF r.raised THEN RaisedForward
        ELSE [raised |-> FALSE,
              loss |-> RDiv(r.loss, Rat(sample_size)),
              logging_output |->
                  [nll_loss_sum |-> r.nll_loss,
                   loss_sum |-> r.loss,
                   bsz |-> bsz,
                   sample_size |-> sample_size,
                   sample_ratio |-> RDiv(Rat(sample_size), Rat(n_tokens)),
                   nonpad_ratio |-> RDiv(Rat(n_nonpad_tokens), Rat(n_tokens))]]

(***************************************************************************)
(* Helpers of the masked losses.                                           *)
(***************************************************************************)
\* mask.float()
to_float(m) == [i \in DOMAIN m |-> IF m[i] THEN Rat(1) ELSE Zero]

\* loss * weights, weights holding integers
Weighted(loss, w) == [i \in DOMAIN loss |-> RMul(loss[i], Rat(w[i]))]

Restrict(t, S) == [i \in S |-> t[i]]

\* t.chunk(2): the halves along dimension 0, a single chunk when shape[0] is 1
chunk2(t) ==
    LET B == Shape0(t)
        size == (B + 1) \div 2
    IN  IF B <= 1 THEN <<t>>
        ELSE <<Restrict(t, {i \in DOMAIN t : i[1] <= size}),
               Restrict(t, {i \in DOMAIN t : i[1] > size})>>

\* (t_loss * t_mask).sum() / t_mask.sum()
chunk_loss(t_loss, t_mask) ==
    RDiv(TSum(TMul(t_loss, to_float(t_mask))), TSum(to_float(t_mask)))

\* the masked mean with the number of all tokens as sample size
masked_mean_over_all_tokens(loss, label_mask) ==
    LET lm == to_float(label_mask)
        sample_size == Rat(numel(label_mask))
    IN  [label_mask |-> lm,
         sample_size |-> sample_size,
         loss |-> RDiv(TSum(TMul(loss, lm)), sample_size)]

\* lines 131-136 (and 203-208): label_mask.float(), its sum as sample size,
\* and (loss * label_mask).sum() / sample_size
masked_mean(loss, label_mask) ==
    LET lm == to_float(label_mask)
        sample_size == TSum(lm)
    IN  [label_mask |-> lm,
         sample_size |-> sample_size,
         loss |-> RDiv(TSum(TMul(loss, lm)), sample_size)]

(***************************************************************************)
(* Coord2SeqCrossEntropyLoss.forward, lines 89-152.                        *)
(***************************************************************************)
Coord2SeqCrossEntropyLoss_forward(self, scores, target, label_mask, coord_mask, weights) ==
    LET label_mask1 == IF IsNone(label_mask) THEN coord_mask ELSE label_mask
        bsz == Shape0(scores.rows)
        n_tokens == numel(target)
        n_nonpad_tokens == IF ~IsNone(self.ignore_index)
                           THEN CountNe(target, self.ignore_index)
                           ELSE n_tokens
        r == label_smoothed_nll_loss(log_softmax(scores), target,
                                     self.label_smoothing, self.ignore_index, FALSE)
    IN  IF r.raised THEN RaisedForward
        ELSE
        LET loss1 == IF ~IsNone(weights) THEN Weighted(r.loss, Val(weights)) ELSE r.loss
            nll_loss1 == IF ~IsNone(weights) THEN Weighted(r.nll_loss, Val(weights))
                         ELSE r.nll_loss
            fullseq_loss == RDiv(TSum(loss1), Rat(n_nonpad_tokens))
            fullseq_nll_loss == RDiv(TSum(nll_loss1), Rat(n_nonpad_tokens))
            masked == ~IsNone(label_mask1)
            sample_size == IF masked THEN masked_mean(loss1, Val(label_mask1)).sample_size
                           ELSE Rat(n_nonpad_tokens)
            loss2 == IF masked THEN masked_mean(loss1, Val(label_mask1)).loss
                     ELSE fullseq_loss
            nll_loss2 == IF masked THEN masked_mean(nll_loss1, Val(label_mask1)).loss
                         ELSE fullseq_nll_loss
        IN  [raised |-> FALSE,
             loss |-> loss2,
             logging_output |->
                 [nll_loss |-> nll_loss2,
                  fullseq_loss |-> fullseq_loss,
                  fullseq_nll_loss |-> fullseq_nll_loss,
                  bsz |-> bsz,
                  sample_size |-> sample_size,
                  sample_ratio |-> RDiv(sample_size, Rat(n_tokens)),
                  nonpad_ratio |-> RDiv(Rat(n_nonpad_tokens), Rat(n_tokens))]]

(***************************************************************************)
(* RDMCrossEntropyLoss.forward, lines 156-243.  It raises where Python     *)
(* does: watch_t1_t2_loss without a label_mask (None.chunk) or with a      *)
(* batch of one (a single chunk cannot be unpacked into two), and          *)
(* cal_constant_loss without weights (None.new_ones) or without a          *)
(* label_mask (tensor * None).                                             *)
(***************************************************************************)
RDMCrossEntropyLoss_forward(self, scores, target, label_mask, weights, cal_constant_loss, watch_t1_t2_loss) ==
    LET bsz == Shape0(scores.rows)
        n_tokens == numel(target)
        n_nonpad_tokens == IF ~IsNone(self.ignore_index)
                           THEN CountNe(target, self.ignore_index)
                           ELSE n_tokens
        r == label_smoothed_nll_loss(log_softmax(scores), target,
                                     self.label_smoothing, self.ignore_index, FALSE)
    IN  IF r.raised THEN RaisedForward
        ELSE IF watch_t1_t2_loss /\ (IsNone(label_mask) \/ Len(chunk2(r.loss)) < 2)
        THEN RaisedForward
        ELSE IF cal_constant_loss /\ (IsNone(weights) \/ IsNone(label_mask))
        THEN RaisedForward
        ELSE
        LET loss1 == IF ~IsNone(weights) THEN Weighted(r.loss, Val(weights)) ELSE r.loss
            nll_loss1 == IF ~IsNone(weights) THEN Weighted(r.nll_loss, Val(weights))
                         ELSE r.nll_loss
            fullseq_loss == RDiv(TSum(loss1), Rat(n_nonpad_tokens))
            fullseq_nll_loss == RDiv(TSum(nll_loss1), Rat(n_nonpad_tokens))
            t1_loss == chunk_loss(chunk2(loss1)[1], chunk2(Val(label_mask))[1])
            t2_loss == chunk_loss(chunk2(loss1)[2], chunk2(Val(label_mask))[2])
            masked == ~IsNone(label_mask)
            sample_size == IF masked THEN masked_mean(loss1, Val(label_mask)).sample_size
                           ELSE Rat(n_nonpad_tokens)
            loss2 == IF masked THEN masked_mean(loss1, Val(label_mask)).loss
                     ELSE fullseq_loss
            nll_loss2 == IF masked THEN masked_mean(nll_loss1, Val(label_mask)).loss
                         ELSE fullseq_nll_loss
            \* weights.new_ones(...): the unweighted loss, masked and normalised
            constant_loss ==
                RDiv(TSum(TMul(r.loss, masked_mean(loss1, Val(label_mask)).label_mask)),
                     sample_size)
        IN  [raised |-> FALSE,
             loss |-> loss2,
             logging_output |->
                 (IF cal_constant_loss THEN "constant_diff_loss" :> constant_loss
                  ELSE <<>>)
                 @@ (IF watch_t1_t2_loss
                     THEN [weight_diff_t1_loss |-> t1_loss, weight_diff_t2_loss |-> t2_loss]
                     ELSE <<>>)
                 @@ [nll_loss |-> nll_loss2,
                     fullseq_loss |-> fullseq_loss,
                     fullseq_nll_loss |-> fullseq_nll_loss,
                     bsz |-> bsz,
                     sample_size |-> sample_size,
                     sample_ratio |-> RDiv(sample_size, Rat(n_tokens)),
                     nonpad_ratio |-> RDiv(Rat(n_nonpad_tokens), Rat(n_tokens)),
                     weight_diff_loss |-> loss2]]

(***************************************************************************)
(* StructAARDMCrossEntropyLoss.forward, lines 247-376, and its inner       *)
(* compute, lines 265-344.  A dict is a function from its keys, iterated   *)
(* in the order of KeyOrder.                                               *)
(***************************************************************************)
\* Python's max(1, x): x when x > 1, otherwise 1
max1(x) == IF x[1] > x[2] THEN x ELSE Rat(1)

\* label_mask[..., None].expand(loss.shape)
expand(label_mask, loss) == [i \in DOMAIN loss |-> label_mask[Front(i)]]

\* (t_loss * t_mask).sum() / t_mask.sum() for a chunk of the loss and of the
\* label_mask; a [b, 1, K] loss and a [b, 1] mask broadcast to [b, b, K]
chunk_loss_broadcast(t_loss, t_mask) ==
    IF Dim(t_mask) = Dim(t_loss) THEN chunk_loss(t_loss, t_mask)
    ELSE RDiv(RMul(TSum(t_loss), TSum(to_float(t_mask))), TSum(to_float(t_mask)))

\* the clamped masked mean without the clamp
masked_mean_unclamped(loss, label_mask) ==
    LET lm == to_float(label_mask)
        sample_size == TSum(lm)
        lm1 == IF Dim(lm) = Dim(loss) - 1 THEN expand(lm, loss) ELSE lm
    IN  [label_mask |-> lm1,
         sample_size |-> sample_size,
         loss |-> RDiv(TSum(TMul(loss, lm1)), sample_size)]

\* the clamped masked mean with the mask summed after it is expanded
masked_mean_expanded_sum(loss, label_mask) ==
    LET lm == to_float(label_mask)
        lm1 == IF Dim(lm) = Dim(loss) - 1 THEN expand(lm, loss) ELSE lm
        sample_size == max1(TSum(lm1))
    IN  [label_mask |-> lm1,
         sample_size |-> sample_size,
         loss |-> RDiv(TSum(TMul(loss, lm1)), sample_size)]

\* lines 300-307
masked_mean_clamped(loss, label_mask) ==
    LET lm == to_float(label_mask)
        sample_size == max1(TSum(lm))
        lm1 == IF Dim(lm) = Dim(loss) - 1 THEN expand(lm, loss) ELSE lm
    IN  [label_mask |-> lm1,
         sample_size |-> sample_size,
         loss |-> RDiv(TSum(TMul(loss, lm1)), sample_size)]

RaisedCompute == [raised |-> TRUE, loss |-> None, nll_loss |-> None,
                  logging_output |-> None]

compute(self, scores, target, label_mask, weights, key, cal_constant_loss, watch_t1_t2_loss) ==
    LET key1 == IF key # "" THEN key \o "/" ELSE key
        bsz == Shape0(scores.rows)
        n_tokens == numel(target)
        n_nonpad_tokens == IF ~IsNone(self.ignore_index)
                           THEN CountNe(target, self.ignore_index)
                           ELSE n_tokens
        r == label_smoothed_nll_loss(log_softmax(scores), target,
                                     self.label_smoothing, self.ignore_index, FALSE)
    IN  IF r.raised THEN RaisedCompute
        ELSE IF watch_t1_t2_loss /\ (IsNone(label_mask) \/ Len(chunk2(r.loss)) < 2)
        THEN RaisedCompute
        ELSE IF cal_constant_loss /\ (IsNone(weights) \/ IsNone(label_mask))
        THEN RaisedCompute
        ELSE
        LET loss1 == IF ~IsNone(weights) THEN Weighted(r.loss, Val(weights)) ELSE r.loss
            nll_loss1 == IF ~IsNone(weights) THEN Weighted(r.nll_loss, Val(weights))
                         ELSE r.nll_loss
            fullseq_loss == RDiv(TSum(loss1), Rat(n_nonpad_tokens))
            fullseq_nll_loss == RDiv(TSum(nll_loss1), Rat(n_nonpad_tokens))
            t1_loss == chunk_loss_broadcast(chunk2(loss1)[1], chunk2(Val(label_mask))[1])
            t2_loss == chunk_loss_broadcast(chunk2(loss1)[2], chunk2(Val(label_mask))[2])
            masked == ~IsNone(label_mask)
            sample_size == IF masked
                           THEN masked_mean_clamped(loss1, Val(label_mask)).sample_size
                           ELSE Rat(n_nonpad_tokens)
            loss2 == IF masked THEN masked_mean_clamped(loss1, Val(label_mask)).loss
                     ELSE fullseq_loss
            nll_loss2 == IF masked THEN masked_mean_clamped(nll_loss1, Val(label_mask)).loss
                         ELSE fullseq_nll_loss
            constant_loss ==
                RDiv(TSum(TMul(r.loss,
                               masked_mean_clamped(loss1, Val(label_mask)).label_mask)),
                     sample_size)
        IN  [raised |-> FALSE,
             loss |-> loss2,
             nll_loss |-> nll_loss2,
             logging_output |->
                 (IF cal_constant_loss
                  THEN (key1 \o "constant_diff_loss") :> constant_loss
                  ELSE <<>>)
                 @@ (IF watch_t1_t2_loss
                     THEN (key1 \o "weight_diff_t1_loss") :> t1_loss
                          @@ (key1 \o "weight_diff_t2_loss") :> t2_loss
                     ELSE <<>>)
                 @@ (key1 \o "nll_loss") :> nll_loss2
                 @@ (key1 \o "fullseq_loss") :> fullseq_loss
                 @@ (key1 \o "fullseq_nll_loss") :> fullseq_nll_loss
                 @@ (key1 \o "bsz") :> bsz
                 @@ (key1 \o "sample_size") :> sample_size
                 @@ (key1 \o "sample_ratio") :> RDiv(sample_size, Rat(n_tokens))
                 @@ (key1 \o "nonpad_ratio") :> RDiv(Rat(n_nonpad_tokens), Rat(n_tokens))
                 @@ (key1 \o "weight_diff_loss") :> loss2]

KeyOrder == <<"aatype", "struct">>
\* type(x) is dict: a tensor is a record of size and rows
IsDict(x) == "rows" \notin DOMAIN x
\* the keys of a dict in iteration order
RECURSIVE KeysFrom(_, _)
KeysFrom(d, order) ==
    IF order = <<>> THEN <<>>
    ELSE (IF Head(order) \in DOMAIN d THEN <<Head(order)>> ELSE <<>>)
            \o KeysFrom(d, Tail(order))
keys(d) == KeysFrom(d, KeyOrder)

\* lines 349-350: what the call on tensors returns from compute's result c
from_compute(c) ==
    IF c.raised THEN RaisedForward
    ELSE [raised |-> FALSE, loss |-> c.loss, logging_output |-> c.logging_output]

\* lines 360-362: the accumulators after compute returned c for the key k
accumulate(acc, c, k) ==
    IF c.raised THEN [raised |-> TRUE]
    ELSE [raised |-> FALSE,
          losses |-> RAdd(acc.losses, c.loss),
          nll_losses |-> RAdd(acc.nll_losses, c.nll_loss),
          \* dict.update: the new entries win
          logging_output_dict |-> c.logging_output @@ acc.logging_output_dict,
          k |-> k,
          logging_output |-> c.logging_output]

\* the for loop of lines 352-362 over the keys ks, from the accumulators acc
RECURSIVE loop(_, _, _, _, _, _, _, _, _)
loop(self, scores_dict, target_dict, label_mask_dict, weights_dict, cal_constant_loss, watch_t1_t2_loss, ks, acc) ==
    IF ks = <<>> \/ acc.raised THEN acc
    ELSE loop(self, scores_dict, target_dict, label_mask_dict, weights_dict,
              cal_constant_loss, watch_t1_t2_loss, Tail(ks),
              accumulate(acc,
                         compute(self, scores_dict[Head(ks)], target_dict[Head(ks)],
                                 label_mask_dict[Head(ks)], weights_dict[Head(ks)],
                                 Head(ks), cal_constant_loss, watch_t1_t2_loss),
                         Head(ks)))

\* lines 363-376: what the call on dicts of n keys returns after the loop left l
from_loop(l, n) ==
    IF l.raised THEN RaisedForward
    ELSE [raised |-> FALSE,
          loss |-> RDiv(l.losses, Rat(n)),
          logging_output |->
              [sample_size |-> l.logging_output[l.k \o "/sample_size"],
               nll_loss |-> RDiv(l.nll_losses, Rat(n)),
               fullseq_loss |-> l.logging_output[l.k \o "/fullseq_loss"],
               fullseq_nll_loss |-> l.logging_output[l.k \o "/fullseq_nll_loss"]]
              @@ l.logging_output_dict]

StructAARDMCrossEntropyLoss_forward(self, scores_dict, target_dict, label_mask_dict, weights_dict, cal_constant_loss, watch_t1_t2_loss) ==
    IF ~IsDict(scores_dict)
    THEN from_compute(compute(self, scores_dict, target_dict, label_mask_dict,
                              weights_dict, "", cal_constant_loss, watch_t1_t2_loss))
    ELSE \* None[k] raises TypeError, and after an empty loop k is unbound
         IF IsNone(label_mask_dict) \/ IsNone(weights_dict) \/ keys(scores_dict) = <<>>
         THEN RaisedForward
         ELSE from_loop(loop(self, scores_dict, target_dict, label_mask_dict,
                             weights_dict, cal_constant_loss, watch_t1_t2_loss,
                             keys(scores_dict),
                             [raised |-> FALSE, losses |-> Zero, nll_losses |-> Zero,
                              logging_output_dict |-> <<>>]),
                        Len(keys(scores_dict)))

(***************************************************************************)
(* State.  op is the function called and pc where the call stands: "call"  *)
(* before its first line, "loop" inside get_alpha_carbon_info's loops,     *)
(* "returned" at the end.  structure, cursor and residues_info are         *)
(* get_alpha_carbon_info's; the others hold a loss function's arguments,   *)
(* and in ret what it returned (or that it raised).                        *)
(***************************************************************************)
VARIABLES op, pc, structure, cursor, residues_info,
          scores, target, mask, label_mask, coord_mask, weights,
          ignore_index, label_smoothing, reduce,
          cal_constant_loss, watch_t1_t2_loss, ret

pdbVars == <<structure, cursor, residues_info>>
argVars == <<scores, target, mask, label_mask, coord_mask, weights,
             ignore_index, label_smoothing, reduce,
             cal_constant_loss, watch_t1_t2_loss>>
lossVars == <<argVars, ret>>
vars == <<op, pc, pdbVars, lossVars>>

(***************************************************************************)
(* src/debug.py: get_alpha_carbon_info.                                    *)
(* A structure is a sequence of models, a model a sequence of chains, a    *)
(* chain has an id and a sequence of residues, a residue has a name, an id *)
(* (hetero flag, sequence number, insertion code) and its atoms by name.   *)
(***************************************************************************)
Atom(c, b) == [coord |-> c, bfactor |-> b]

ResidueKinds ==
    { [resname |-> "ALA", id |-> <<" ", 1, " ">>,
       atoms |-> ("N" :> Atom(<<0, 0, 0>>, 80) @@ "CA" :> Atom(<<1, 2, 3>>, 90))],
      [resname |-> "GLY", id |-> <<" ", 2, " ">>,
       atoms |-> ("N" :> Atom(<<3, 3, 3>>, 40) @@ "CA" :> Atom(<<4, 5, 6>>, 50))],
      [resname |-> "GLY", id |-> <<" ", 1, " ">>,
       atoms |-> ("N" :> Atom(<<7, 7, 7>>, 30))],
      [resname |-> "HOH", id |-> <<"W", 3, " ">>,
       atoms |-> ("O" :> Atom(<<8, 8, 8>>, 20))] }

ChainIds == <<"A", "B", "C", "D", "E", "F">>

\* the chain lists of one model holding n residues, chains named from ChainIds[k] on
RECURSIVE ChainLists(_, _)
ChainLists(n, k) ==
    IF n = 0 THEN {<<>>}
    ELSE UNION { { <<[id |-> ChainIds[k], residues |-> rs]>> \o rest :
                     rs \in [1..m -> ResidueKinds], rest \in ChainLists(n - m, k + 1) } :
                 m \in 1..n }

RECURSIVE ModelLists(_)
ModelLists(n) ==
    IF n = 0 THEN {<<>>}
    ELSE UNION { { <<mdl>> \o rest : mdl \in ChainLists(k, 1), rest \in ModelLists(n - k) } :
                 k \in 1..n }

Structures == UNION { ModelLists(n) : n \in 0..MaxResidues }

Done == <<0, 0, 0>>

\* the residue the three nested for loops reach after <<m, c, r>>
Advance(s, pos) ==
    LET m == pos[1]
        c == pos[2]
        r == pos[3]
    IN  IF r < Len(s[m][c].residues) THEN <<m, c, r + 1>>
        ELSE IF c < Len(s[m]) THEN <<m, c + 1, 1>>
        ELSE IF m < Len(s) THEN <<m + 1, 1, 1>>
        ELSE Done

ChainAt(s, pos) == s[pos[1]][pos[2]]
ResidueAt(s, pos) == s[pos[1]][pos[2]].residues[pos[3]]

\* residue['CA'] raises KeyError when the residue has no such atom
HasAtom(residue, name) == name \in DOMAIN residue.atoms

\* ndarray.tolist(): the same numbers, as a list
tolist(coord) == [k \in 1..Len(coord) |-> coord[k]]

\* res_info with the chain id and the residue name in each other's place
res_info_names_swapped(chain, residue) ==
    LET ca_atom == residue.atoms["CA"]
    IN  [chain |-> residue.resname,
         resname |-> chain.id,
         resnum |-> residue.id[2],
         ca_coord |-> tolist(ca_atom.coord),
         plddt |-> ca_atom.bfactor]

res_info(chain, residue) ==
    LET ca_atom == residue.atoms["CA"]
    IN  [chain |-> chain.id,
         resname |-> residue.resname,
         resnum |-> residue.id[2],
         ca_coord |-> tolist(ca_atom.coord),
         plddt |-> ca_atom.bfactor]

PdbIdle ==
    /\ structure = <<>>
    /\ cursor = Done
    /\ residues_info = None

\* lines 49-55: parse the file, start with an empty list and enter the loops
Parse ==
    /\ op = "get_alpha_carbon_info"
    /\ pc = "call"
    /\ pc' = "loop"
    /\ residues_info' = <<>>
    /\ cursor' = IF structure = <<>> THEN Done ELSE <<1, 1, 1>>
    /\ UNCHANGED <<op, structure, lossVars>>

InLoop == op = "get_alpha_carbon_info" /\ pc = "loop" /\ cursor # Done

\* lines 66-75: the try body, for a residue that has a CA atom
AppendCA ==
    /\ InLoop
    /\ HasAtom(ResidueAt(structure, cursor), "CA")
    /\ residues_info' = Append(residues_info,
                               res_info(ChainAt(structure, cursor),
                                        ResidueAt(structure, cursor)))
    /\ cursor' = Advance(structure, cursor)
    /\ UNCHANGED <<op, pc, structure, lossVars>>

\* lines 76-78: except KeyError: continue
SkipNoCA ==
    /\ InLoop
    /\ ~HasAtom(ResidueAt(structure, cursor), "CA")
    /\ cursor' = Advance(structure, cursor)
    /\ UNCHANGED <<op, pc, structure, residues_info, lossVars>>

\* line 80
Return ==
    /\ op = "get_alpha_carbon_info"
    /\ pc = "loop"
    /\ cursor = Done
    /\ pc' = "returned"
    /\ UNCHANGED <<op, structure, cursor, residues_info, lossVars>>

NextPdb == Parse \/ AppendCA \/ SkipNoCA \/ Return

LossIdle ==
    /\ scores = [size |-> 0, rows |-> None]
    /\ target = None
    /\ mask = None
    /\ label_mask = None
    /\ coord_mask = None
    /\ weights = None
    /\ ignore_index = None
    /\ label_smoothing = Zero
    /\ reduce = TRUE
    /\ cal_constant_loss = FALSE
    /\ watch_t1_t2_loss = FALSE
    /\ ret = None

InitPdb ==
    /\ op = "get_alpha_carbon_info"
    /\ pc = "call"
    /\ structure \in Structures
    /\ cursor = Done
    /\ residues_info = None
    /\ LossIdle

SpecPdb == InitPdb /\ [][NextPdb]_vars

(***************************************************************************)
(* What get_alpha_carbon_info is to return for a structure: the records of *)
(* the residues that have a CA atom, model by model, chain by chain.       *)
(***************************************************************************)
RECURSIVE RecordsOfResidues(_, _)
RecordsOfResidues(chain_id, rs) ==
    IF rs = <<>> THEN <<>>
    ELSE (IF "CA" \in DOMAIN Head(rs).atoms
          THEN << [chain |-> chain_id,
                   resname |-> Head(rs).resname,
                   resnum |-> Head(rs).id[2],
                   ca_coord |-> Head(rs).atoms["CA"].coord,
                   plddt |-> Head(rs).atoms["CA"].bfactor] >>
          ELSE <<>>) \o RecordsOfResidues(chain_id, Tail(rs))

RECURSIVE RecordsOfChains(_)
RecordsOfChains(chains) ==
    IF chains = <<>> THEN <<>>
    ELSE RecordsOfResidues(Head(chains).id, Head(chains).residues)
            \o RecordsOfChains(Tail(chains))

RECURSIVE RecordsOfModels(_)
RecordsOfModels(models) ==
    IF models = <<>> THEN <<>>
    ELSE RecordsOfChains(Head(models)) \o RecordsOfModels(Tail(models))

ResiduePlaces(s) ==
    {<<m, c, r>> \in (1..MaxResidues) \X (1..MaxResidues) \X (1..MaxResidues) :
        m <= Len(s) /\ c <= Len(s[m]) /\ r <= Len(s[m][c].residues)}

NumWithCA(s) ==
    Cardinality({q \in ResiduePlaces(s) : "CA" \in DOMAIN s[q[1]][q[2]].residues[q[3]].atoms})

\* C1: get_alpha_carbon_info returns exactly one record for every residue that
\* has a 'CA' atom, in the order model -> chain -> residue, each record holding
\* the chain id, resname, resnum, the CA coordinates and the CA B-factor as
\* plddt; a residue without 'CA' adds no record, so the length of the result
\* is the number of residues that have a CA atom.
C1_OneRecordPerCAResidue ==
    (op = "get_alpha_carbon_info" /\ pc = "returned") =>
        /\ residues_info = RecordsOfModels(structure)
        /\ Len(residues_info) = NumWithCA(structure)

\* a returned call on a structure of two models in which a residue without CA
\* was skipped between two residues that were recorded
C1_Witness ==
    /\ op = "get_alpha_carbon_info"
    /\ pc = "returned"
    /\ Len(structure) = 2
    /\ Cardinality(ResiduePlaces(structure)) = 3
    /\ Len(residues_info) = 2
    /\ residues_info[1].plddt # residues_info[2].plddt

(***************************************************************************)
(* The arguments the loss functions are called with.                       *)
(***************************************************************************)
\* nn.CrossEntropyLoss's default ignore_index, which the four classes inherit
IgnoreDefault == -100

ScoreValues == {0, 1}
ClassCounts == {1, 2, 3}
ScoreRows(C) == {row \in [1..C -> ScoreValues] : IsPow2(SumExp(row))}
TargetValues(C) == (0..(C - 1)) \cup {IgnoreDefault}
IgnoreValues == {None, Some(0), Some(IgnoreDefault)}
EpsValues == {Zero, <<1, 10>>}

IgnoreInts == {0, IgnoreDefault}
Self == [ignore_index |-> ignore_index, label_smoothing |-> label_smoothing]

(***************************************************************************)
(* A direct call of label_smoothed_nll_loss on lprobs = log_softmax(scores)*)
(* with a target of shape [n] or, already unsqueezed, [n, 1].              *)
(***************************************************************************)
InitNll ==
    /\ PdbIdle
    /\ op = "label_smoothed_nll_loss"
    /\ pc = "call"
    /\ \E n \in 1..MaxTokens, C \in ClassCounts, unsqueezed \in BOOLEAN :
          /\ scores \in [size : {C}, rows : [Idx1(n) -> ScoreRows(C)]]
          /\ target \in [IF unsqueezed THEN {Append(i, 1) : i \in Idx1(n)} ELSE Idx1(n)
                           -> TargetValues(C)]
    /\ mask = None
    /\ label_mask = None
    /\ coord_mask = None
    /\ weights = None
    /\ ignore_index \in IgnoreValues
    /\ label_smoothing \in EpsValues
    /\ reduce \in BOOLEAN
    /\ cal_constant_loss = FALSE
    /\ watch_t1_t2_loss = FALSE
    /\ ret = None

CallLabelSmoothedNllLoss ==
    /\ op = "label_smoothed_nll_loss"
    /\ pc = "call"
    /\ pc' = "returned"
    /\ ret' = label_smoothed_nll_loss(log_softmax(scores), target, label_smoothing,
                                      ignore_index, reduce)
    /\ UNCHANGED <<op, pdbVars, argVars>>

SpecNll == InitNll /\ [][CallLabelSmoothedNllLoss]_vars



(***************************************************************************)
(* The call of SpecNll, position by position, as the claims describe it.   *)
(***************************************************************************)
Positions == DOMAIN scores.rows
NumCls == scores.size
TargetAt(p) == IF p \in DOMAIN target THEN target[p] ELSE target[Append(p, 1)]
At(t, p) == IF p \in DOMAIN t THEN t[p] ELSE t[Append(p, 1)]
Ignored(p) == ~IsNone(ignore_index) /\ TargetAt(p) = Val(ignore_index)
LogProbs(p) == log_softmax_row(scores.rows[p])
\* minus the log-probability of the target class
NllAt(p) == Rat(-(LogProbs(p)[TargetAt(p) + 1]))
\* minus the sum of the log-probabilities of all classes
SmoothAt(p) == Rat(-SumSeq(LogProbs(p)))
ClaimedEpsI == RDiv(label_smoothing, Rat(NumCls - 1))
\* (1 - epsilon - epsilon/(C-1)) * nll + (epsilon/(C-1)) * smooth
Smoothed(nll, smooth) ==
    RAdd(RMul(RSub(RSub(Rat(1), label_smoothing), ClaimedEpsI), nll),
         RMul(ClaimedEpsI, smooth))
KeptNll(p) == IF Ignored(p) THEN Zero ELSE NllAt(p)
KeptSmooth(p) == IF Ignored(p) THEN Zero ELSE SmoothAt(p)

NllReturned == op = "label_smoothed_nll_loss" /\ pc = "returned" /\ ~ret.raised

\* C5: for C >= 2 classes label_smoothed_nll_loss returns
\* loss = (1 - epsilon - epsilon/(C-1)) * nll_loss + (epsilon/(C-1)) * smooth_loss,
\* nll_loss being minus the log-probability of the target class and smooth_loss
\* minus the sum of the log-probabilities of all C classes (a position whose
\* target is ignore_index counting zero in both), summed over the positions
\* when reduce is True; with epsilon = 0 the loss is the nll_loss.
C5_SmoothedLossFormula ==
    (NllReturned /\ NumCls >= 2) =>
        /\ reduce =>
              /\ ret.nll_loss = TSum([p \in Positions |-> KeptNll(p)])
              /\ ret.loss = Smoothed(ret.nll_loss, TSum([p \in Positions |-> KeptSmooth(p)]))
        /\ ~reduce =>
              \A p \in Positions :
                  /\ At(ret.nll_loss, p) = KeptNll(p)
                  /\ At(ret.loss, p) = Smoothed(KeptNll(p), KeptSmooth(p))
        /\ label_smoothing = Zero => ret.loss = ret.nll_loss

\* a reduced call on two positions of three classes with epsilon = 1/10, where
\* smoothing makes the loss differ from the nll_loss
C5_Witness ==
    /\ NllReturned
    /\ reduce
    /\ NumCls = 3
    /\ Cardinality(Positions) = 2
    /\ label_smoothing = <<1, 10>>
    /\ \A p \in Positions : ~Ignored(p)
    /\ ret.loss # ret.nll_loss

\* C4: for every target and every ignore_index, also one that is no class
\* index such as the inherited default -100, label_smoothed_nll_loss completes
\* without error, a position whose target is ignore_index contributes zero to
\* loss and nll_loss, and every other position contributes its unmasked value.
\* (Stated for C >= 2 and targets that are each a class or the ignore_index.)
C4_IgnoreIndexNeverRaises ==
    (/\ op = "label_smoothed_nll_loss"
     /\ pc = "returned"
     /\ NumCls >= 2
     /\ \A p \in Positions : TargetAt(p) \in 0..(NumCls - 1) \/ Ignored(p)) =>
        /\ ~ret.raised
        /\ reduce =>
              /\ ret.nll_loss = TSum([p \in Positions |-> KeptNll(p)])
              /\ ret.loss = TSum([p \in Positions |->
                                    IF Ignored(p) THEN Zero
                                    ELSE Smoothed(NllAt(p), SmoothAt(p))])
        /\ ~reduce =>
              \A p \in Positions :
                  /\ At(ret.nll_loss, p) = KeptNll(p)
                  /\ At(ret.loss, p) = IF Ignored(p) THEN Zero
                                       ELSE Smoothed(NllAt(p), SmoothAt(p))


(***************************************************************************)
(* A call of CrossEntropyLoss.forward on scores [N, C] and target [N],     *)
(* with a boolean mask [N] or none.                                        *)
(***************************************************************************)
InitCE ==
    /\ PdbIdle
    /\ op = "CrossEntropyLoss"
    /\ pc = "call"
    /\ \E n \in 1..MaxTokens, C \in ClassCounts :
          /\ scores \in [size : {C}, rows : [Idx1(n) -> ScoreRows(C)]]
          /\ target \in [Idx1(n) -> TargetValues(C)]
          /\ mask \in {None} \cup {Some(m) : m \in [Idx1(n) -> BOOLEAN]}
    /\ label_mask = None
    /\ coord_mask = None
    /\ weights = None
    /\ ignore_index \in {Some(v) : v \in IgnoreInts}
    /\ label_smoothing \in EpsValues
    /\ reduce = TRUE
    /\ cal_constant_loss = FALSE
    /\ watch_t1_t2_loss = FALSE
    /\ ret = None

CallCrossEntropyLoss ==
    /\ op = "CrossEntropyLoss"
    /\ pc = "call"
    /\ pc' = "returned"
    /\ ret' = CrossEntropyLoss_forward(Self, scores, target, mask)
    /\ UNCHANGED <<op, pdbVars, argVars>>

SpecCE == InitCE /\ [][CallCrossEntropyLoss]_vars

\* what C2 speaks of: whether the call raised and, if not, loss_avg and the
\* logged loss_sum, nll_loss_sum and sample_size
Observed(r) ==
    IF r.raised THEN <<"raised">>
    ELSE <<r.loss, r.logging_output.loss_sum, r.logging_output.nll_loss_sum,
           r.logging_output.sample_size>>

MaskedOut == {p \in Positions : ~Val(mask)[p]}

\* C2: with a mask, the positions whose mask is False are masked out: a call
\* with the same mask whose scores and targets agree at every mask-True
\* position returns the same loss_avg and logs the same loss_sum, nll_loss_sum
\* and sample_size, whatever its scores and targets at the mask-False
\* positions.  (Any two such calls differ by a chain of changes of one
\* mask-False position, so one changed position is what is checked.)
C2_MaskedOutPositionsDoNotCount ==
    (op = "CrossEntropyLoss" /\ pc = "returned" /\ ~IsNone(mask)) =>
        \A p \in MaskedOut :
            \A row \in ScoreRows(NumCls), t \in TargetValues(NumCls) :
                Observed(CrossEntropyLoss_forward(
                            Self,
                            [scores EXCEPT !.rows[p] = row],
                            [target EXCEPT ![p] = t],
                            mask)) = Observed(ret)

\* a returned call with one position kept and one masked out, the masked-out
\* one holding a target that is no class index
C2_Witness ==
    /\ op = "CrossEntropyLoss"
    /\ pc = "returned"
    /\ ~IsNone(mask)
    /\ ~ret.raised
    /\ Cardinality(Positions) = 2
    /\ Cardinality(MaskedOut) = 1
    /\ \E p \in MaskedOut : target[p] = IgnoreDefault
    /\ ret.logging_output.sample_size = 1
    /\ NumCls = 3


(***************************************************************************)
(* A call of Coord2SeqCrossEntropyLoss.forward or RDMCrossEntropyLoss      *)
(* .forward on scores [B, 1, C] and target [B, 1]; the masks and the       *)
(* weights are [B, 1] or None.                                             *)
(***************************************************************************)
MaskedClassCounts == {2, 3}
MaskedEps == {<<1, 10>>}
MaskedIgnoreValues == {None, Some(0)}
WeightChoices(I) == {None, Some([i \in I |-> i[1]])}
MaskChoices(I) == {None} \cup {Some(m) : m \in [I -> BOOLEAN]}
Complement(m) == [i \in DOMAIN m |-> ~m[i]]

InitMasked ==
    /\ PdbIdle
    /\ pc = "call"
    /\ op \in {"Coord2SeqCrossEntropyLoss", "RDMCrossEntropyLoss"}
    /\ \E B \in 1..MaxTokens, C \in MaskedClassCounts :
          /\ scores \in [size : {C}, rows : [Idx2(B, 1) -> ScoreRows(C)]]
          /\ target \in [Idx2(B, 1) -> TargetValues(C)]
          /\ label_mask \in MaskChoices(Idx2(B, 1))
          /\ weights \in WeightChoices(Idx2(B, 1))
          /\ IF op = "RDMCrossEntropyLoss" THEN coord_mask = None
             ELSE IF IsNone(label_mask) THEN coord_mask \in MaskChoices(Idx2(B, 1))
             ELSE coord_mask \in {None, Some(Complement(Val(label_mask)))}
    /\ mask = None
    /\ ignore_index \in MaskedIgnoreValues
    /\ label_smoothing \in MaskedEps
    /\ reduce = FALSE
    /\ cal_constant_loss \in (IF op = "RDMCrossEntropyLoss" THEN BOOLEAN ELSE {FALSE})
    /\ watch_t1_t2_loss \in (IF op = "RDMCrossEntropyLoss" THEN BOOLEAN ELSE {FALSE})
    /\ ret = None

CallCoord2SeqCrossEntropyLoss ==
    /\ op = "Coord2SeqCrossEntropyLoss"
    /\ pc = "call"
    /\ pc' = "returned"
    /\ ret' = Coord2SeqCrossEntropyLoss_forward(Self, scores, target, label_mask,
                                                coord_mask, weights)
    /\ UNCHANGED <<op, pdbVars, argVars>>

CallRDMCrossEntropyLoss ==
    /\ op = "RDMCrossEntropyLoss"
    /\ pc = "call"
    /\ pc' = "returned"
    /\ ret' = RDMCrossEntropyLoss_forward(Self, scores, target, label_mask, weights,
                                          cal_constant_loss, watch_t1_t2_loss)
    /\ UNCHANGED <<op, pdbVars, argVars>>

NextMasked == CallCoord2SeqCrossEntropyLoss \/ CallRDMCrossEntropyLoss

SpecMasked == InitMasked /\ [][NextMasked]_vars

\* the label mask in effect: for Coord2Seq, label_mask or, if None, coord_mask
MaskInEffect ==
    IF op = "Coord2SeqCrossEntropyLoss" /\ IsNone(label_mask) THEN coord_mask
    ELSE label_mask
\* the per-position label-smoothed loss, zero where the target is ignore_index
LossAt(p) == IF Ignored(p) THEN Zero ELSE Smoothed(NllAt(p), SmoothAt(p))
WeightAt(p) == IF IsNone(weights) THEN Rat(1) ELSE Rat(Val(weights)[p])
MaskAt(p) == IF Val(MaskInEffect)[p] THEN Rat(1) ELSE Zero
NumNotIgnored == Cardinality({p \in Positions : ~Ignored(p)})

MaskedReturned ==
    /\ op \in {"Coord2SeqCrossEntropyLoss", "RDMCrossEntropyLoss"}
    /\ pc = "returned"
    /\ ~ret.raised

\* C3: in Coord2SeqCrossEntropyLoss.forward and RDMCrossEntropyLoss.forward,
\* with a label mask in effect the returned loss is the sum over all positions
\* of (per-position label-smoothed loss x weight x mask) divided by the sum of
\* the mask, and the logged sample_size is the sum of the mask; with no mask in
\* effect the returned loss is fullseq_loss, the weighted sum over all
\* positions divided by the number of targets different from ignore_index.
C3_MaskedMeanOrFullseq ==
    MaskedReturned =>
        IF ~IsNone(MaskInEffect)
        THEN /\ ret.loss =
                  RDiv(TSum([p \in Positions |->
                               RMul(RMul(LossAt(p), WeightAt(p)), MaskAt(p))]),
                       TSum([p \in Positions |-> MaskAt(p)]))
             /\ ret.logging_output.sample_size = TSum([p \in Positions |-> MaskAt(p)])
        ELSE /\ ret.loss = ret.logging_output.fullseq_loss
             /\ ret.loss =
                  RDiv(TSum([p \in Positions |-> RMul(LossAt(p), WeightAt(p))]),
                       Rat(NumNotIgnored))

\* a returned weighted call on two positions of three classes, one of them
\* masked out, whose loss differs from the loss over the full sequence
C3_WitnessMasked ==
    /\ MaskedReturned
    /\ ~IsNone(MaskInEffect)
    /\ ~IsNone(weights)
    /\ NumCls = 3
    /\ Cardinality(Positions) = 2
    /\ ret.logging_output.sample_size = Rat(1)
    /\ ret.loss # Zero
    /\ ret.loss # ret.logging_output.fullseq_loss


(***************************************************************************)
(* A call of StructAARDMCrossEntropyLoss.forward: on tensors, scores       *)
(* [B, 1, C] with target [B, 1], or bit-based scores [B, 1, K, 2] with     *)
(* target [B, 1, K], the bits of a position sharing its row of scores; or  *)
(* on dicts of one-token tensors.  label_mask is [B, 1] in every case.     *)
(***************************************************************************)
Idx3(B, L, K) == {<<b, l, k>> : b \in 1..B, l \in 1..L, k \in 1..K}
StructClassCounts == {3}
BitCounts == {2}
KeySets == {{"aatype"}, {"aatype", "struct"}}

InitStructTensors ==
    \E B \in 1..MaxTokens, C \in StructClassCounts :
        /\ scores \in [size : {C}, rows : [Idx2(B, 1) -> ScoreRows(C)]]
        /\ target \in [Idx2(B, 1) -> TargetValues(C)]
        /\ label_mask \in MaskChoices(Idx2(B, 1))
        /\ weights \in WeightChoices(Idx2(B, 1))

InitStructBits ==
    \E B \in 1..MaxTokens, K \in BitCounts :
        /\ \E row \in [Idx2(B, 1) -> ScoreRows(2)] :
              scores = [size |-> 2, rows |-> [e \in Idx3(B, 1, K) |-> row[Front(e)]]]
        /\ target \in [Idx3(B, 1, K) -> {0, 1}]
        /\ label_mask \in MaskChoices(Idx2(B, 1))
        /\ weights \in WeightChoices(Idx3(B, 1, K))

InitStructDicts ==
    \E ks \in KeySets, C \in StructClassCounts :
        /\ scores \in [ks -> [size : {C}, rows : [Idx2(1, 1) -> ScoreRows(C)]]]
        /\ target \in [ks -> [Idx2(1, 1) -> TargetValues(C)]]
        /\ label_mask \in {None} \cup [ks -> MaskChoices(Idx2(1, 1))]
        /\ weights \in {None} \cup [ks -> WeightChoices(Idx2(1, 1))]

InitStruct ==
    /\ PdbIdle
    /\ op = "StructAARDMCrossEntropyLoss"
    /\ pc = "call"
    /\ InitStructTensors \/ InitStructBits \/ InitStructDicts
    /\ mask = None
    /\ coord_mask = None
    /\ ignore_index \in MaskedIgnoreValues
    /\ label_smoothing \in MaskedEps
    /\ reduce = FALSE
    /\ cal_constant_loss \in BOOLEAN
    /\ watch_t1_t2_loss \in BOOLEAN
    /\ ret = None

CallStructAARDMCrossEntropyLoss ==
    /\ op = "StructAARDMCrossEntropyLoss"
    /\ pc = "call"
    /\ pc' = "returned"
    /\ ret' = StructAARDMCrossEntropyLoss_forward(Self, scores, target, label_mask,
                                                  weights, cal_constant_loss,
                                                  watch_t1_t2_loss)
    /\ UNCHANGED <<op, pdbVars, argVars>>

SpecStruct == InitStruct /\ [][CallStructAARDMCrossEntropyLoss]_vars

StructReturned ==
    /\ op = "StructAARDMCrossEntropyLoss"
    /\ pc = "returned"
    /\ ~ret.raised
\* the number of allowed positions of a label mask
Allowed(m) == Cardinality({i \in DOMAIN m : m[i]})
AtLeastOne(n) == IF n > 1 THEN n ELSE 1
GivenMask(k) == ~IsNone(label_mask[k])

\* C6: in StructAARDMCrossEntropyLoss.forward, whenever a label_mask is given
\* the divisor sample_size that normalises the returned loss and nll_loss is
\* max(1, label_mask.sum()), never less than 1: with no allowed position the
\* returned loss is 0 and it is not divided by zero.  For dicts this holds
\* of every key's sample_size and of the mean of the keys' losses.
C6_SampleSizeAtLeastOne ==
    StructReturned =>
        IF ~IsDict(scores)
        THEN ~IsNone(label_mask) =>
                /\ ret.logging_output.sample_size =
                      Rat(AtLeastOne(Allowed(Val(label_mask))))
                /\ ret.logging_output.sample_size[1] >= 1
                /\ Finite(ret.loss)
                /\ Finite(ret.logging_output.nll_loss)
                /\ Allowed(Val(label_mask)) = 0 => ret.loss = Zero
        ELSE /\ \A k \in DOMAIN scores :
                    GivenMask(k) =>
                        /\ ret.logging_output[k \o "/sample_size"] =
                              Rat(AtLeastOne(Allowed(Val(label_mask[k]))))
                        /\ Finite(ret.logging_output[k \o "/weight_diff_loss"])
             /\ (\A k \in DOMAIN scores : GivenMask(k)) => Finite(ret.loss)
             /\ (\A k \in DOMAIN scores :
                    GivenMask(k) /\ Allowed(Val(label_mask[k])) = 0) => ret.loss = Zero

\* a returned call on two tokens whose label_mask allows no position
C6_Witness ==
    /\ StructReturned
    /\ ~IsDict(scores)
    /\ ~IsNone(label_mask)
    /\ Cardinality(DOMAIN Val(label_mask)) = 2
    /\ Allowed(Val(label_mask)) = 0
    /\ ret.logging_output.sample_size = Rat(1)
    /\ ret.loss = Zero
    /\ IsNan(ret.logging_output.fullseq_loss) \/ ret.logging_output.fullseq_loss # Zero

BitBased ==
    /\ ~IsDict(scores)
    /\ ~IsNone(label_mask)
    /\ Dim(Val(label_mask)) = Dim(target) - 1

\* C7: for bit-based modelling, the label_mask having one dimension fewer than
\* the per-position loss, the mask is broadcast over the last dimension: all K
\* entries of an allowed position are kept, all K entries of a masked-out one
\* are dropped, and the returned loss is the sum of the kept entries divided by
\* the number of allowed positions (at least 1), not by the number of kept
\* entries.
C7_BitMaskBroadcast ==
    (StructReturned /\ BitBased) =>
        ret.loss =
            RDiv(TSum([e \in Positions |->
                         IF Val(label_mask)[Front(e)]
                         THEN RMul(LossAt(e), WeightAt(e)) ELSE Zero]),
                 Rat(AtLeastOne(Allowed(Val(label_mask)))))

\* a returned bit-based call with one allowed and one masked-out position,
\* where the number of kept entries differs from the number of allowed positions
C7_Witness ==
    /\ StructReturned
    /\ BitBased
    /\ Cardinality(DOMAIN Val(label_mask)) = 2
    /\ Allowed(Val(label_mask)) = 1
    /\ Cardinality({e \in Positions : Val(label_mask)[Front(e)]}) = 2
    /\ ret.loss = Rat(2)

=============================================================================
